---- MODULE Spec2Model ----
(***************************************************************************)
(* A model of recordings_io.py: the free functions read() and write() and  *)
(* the class Walker with its generator read_wave().                        *)
(*                                                                         *)
(* Sample values are IEEE floats.  A float is modelled as <<n, d, r>>: the  *)
(* fraction n/d in lowest terms with d >= 0, where d = 0 stands for the    *)
(* special values (<<1, 0, 0>> is +inf, <<-1, 0, 0>> is -inf, <<0, 0, 0>>  *)
(* is NaN), and r = 1 when the float is the rounding of n/d rather than    *)
(* n/d itself.  A fraction whose denominator is no power of two is always  *)
(* rounded.  Signed zeros are not distinguished.                           *)
(***************************************************************************)
EXTENDS Integers, Sequences, FiniteSets, TLC

(***************************************************************************)
(* Bounds of the model.                                                    *)
(***************************************************************************)
\* longest sample buffer, and the range segment indices are drawn around
MaxLen == 2
\* most entries in one directory listing of the walked tree
MaxEntries == 2
\* most read_wave() generators alive at once
MaxGens == 2

\* sample values of caller-made buffers: small values of both signs, zero,
\* and one negative value whose scaled magnitude leaves the int16 range
SampleValues == {-40, -3, -2, -1, 0, 1, 2, 3}
\* sample values of the decoded input recording
RawValues == {-2, 0, 1}
\* the dB argument write() is called with: its default, 30.0
DBs == {30}

(***************************************************************************)
(* Float arithmetic.                                                       *)
(***************************************************************************)
Abs(x) == IF x < 0 THEN -x ELSE x

Sign(x) == IF x < 0 THEN -1 ELSE IF x > 0 THEN 1 ELSE 0

RECURSIVE GCD(_, _)
GCD(a, b) == IF b = 0 THEN a ELSE GCD(b, a % b)

RECURSIVE PowerOfTwo(_)
PowerOfTwo(d) == d = 1 \/ (d > 1 /\ d % 2 = 0 /\ PowerOfTwo(d \div 2))

\* the float n/d in lowest terms, d = 0 giving inf, -inf or NaN
Frac(n, d, r) ==
  IF d = 0 THEN <<Sign(n), 0, 0>>
  ELSE IF n = 0 THEN <<0, 1, 0>>
  ELSE LET g == GCD(Abs(n), Abs(d))
       IN  <<Sign(d) * (n \div g), Abs(d) \div g, r>>

F(k) == <<k, 1, 0>>

NaN == <<0, 0, 0>>

IsNaN(x) == x[1] = 0 /\ x[2] = 0

IsFinite(x) == x[2] # 0

\* the float differs from the fraction by a rounding error
Rounded(x) == IsFinite(x) /\ (x[3] = 1 \/ ~PowerOfTwo(x[2]))

\* the product of the fractions, marked r
Product(x, y, r) ==
  IF x[2] = 0 \/ y[2] = 0 THEN Frac(x[1] * y[1], 0, 0)
  ELSE LET g1 == GCD(Abs(x[1]), y[2])
           g2 == GCD(Abs(y[1]), x[2])
       IN  Frac((x[1] \div g1) * (y[1] \div g2), (x[2] \div g2) * (y[2] \div g1), r)

\* an operation on exact floats is correctly rounded: exact whenever its
\* result is a float; on a rounded operand the error carries over
Carried(x, y) == IF Rounded(x) \/ Rounded(y) THEN 1 ELSE 0

FMul(x, y) == Product(x, y, Carried(x, y))

Recip(y) ==
  IF y[1] < 0 THEN <<-y[2], -y[1], 0>>
  ELSE IF y[1] = 0 THEN <<Sign(y[2]), 0, 0>>
  ELSE <<y[2], y[1], 0>>

FDiv(x, y) == Product(x, Recip(y), Carried(x, y))

FAbs(x) == <<Abs(x[1]), x[2], x[3]>>

\* floor of a finite float
FFloor(x) == x[1] \div x[2]

\* x < y for floats that are not NaN
FLess(x, y) ==
  IF x[2] = 0 \/ y[2] = 0 THEN x[1] * y[2] < y[1] * x[2]
  ELSE \/ FFloor(x) < FFloor(y)
       \/ /\ FFloor(x) = FFloor(y)
          /\ (x[1] % x[2]) * y[2] < (y[1] % y[2]) * x[2]

\* np.max of a non-empty 1-d float array: NaN if any element is NaN
RECURSIVE NpMax(_)
NpMax(s) ==
  IF Len(s) = 1 THEN s[1]
  ELSE LET m == NpMax(Tail(s))
       IN  IF IsNaN(s[1]) \/ IsNaN(m) THEN NaN
           ELSE IF FLess(s[1], m) THEN m ELSE s[1]

Scale(s, g) == [i \in 1..Len(s) |-> FMul(s[i], g)]

RECURSIVE Pow10(_)
Pow10(k) == IF k = 0 THEN 1 ELSE 10 * Pow10(k - 1)

(***************************************************************************)
(* astype('int16').                                                        *)
(***************************************************************************)
Int16Min == -32768
Int16Max == 32767

Trunc(x) == Sign(x[1]) * (Abs(x[1]) \div x[2])

Wrap16(t) == ((t + 32768) % 65536) - 32768

Clamp16(x) == IF x[1] < 0 THEN Int16Min ELSE Int16Max

\* The int16 values a float can be cast to.  A value inside the int16 range
\* is truncated toward zero; a rounded float standing for a whole number may
\* lie just below it in magnitude, so both truncations are possible.
\* Casting NaN, an infinity or a value outside the range is undefined in C:
\* the builds wrap, saturate or produce 0 or the minimum.
CastSet(x) ==
  IF IsNaN(x) THEN {0, Int16Min}
  ELSE IF ~IsFinite(x) THEN {0, Int16Min, Clamp16(x)}
  ELSE LET t == Trunc(x)
       IN  IF t < Int16Min \/ t > Int16Max
             THEN {Wrap16(t), Clamp16(x), Int16Min, 0}
           ELSE IF x[2] = 1 /\ x[3] = 1 THEN {t, t - Sign(t)}
           ELSE {t}

\* the casts of a set of values: one outcome for each value
RECURSIVE CastMaps(_)
CastMaps(vals) ==
  IF vals = {} THEN {<<>>}
  ELSE LET v == CHOOSE v \in vals : TRUE
       IN  {(v :> c) @@ m : c \in CastSet(v), m \in CastMaps(vals \ {v})}

\* the arrays astype('int16') can give: the cast is a function of the
\* value, so equal samples are cast alike
CastAll(s) ==
  {[i \in 1..Len(s) |-> m[s[i]]] : m \in CastMaps({s[i] : i \in 1..Len(s)})}

(***************************************************************************)
(* Slices and the segment loop of write().                                 *)
(***************************************************************************)
\* one bound of a Python slice over a sequence of length n
Clip(i, n) ==
  LET j == IF i < 0 THEN i + n ELSE i
  IN  IF j < 0 THEN 0 ELSE IF j > n THEN n ELSE j

\* s[start:stop] with stop taken as the last index of the slice
SliceInclusive(s, start, stop) ==
  SubSeq(s, Clip(start, Len(s)) + 1, Clip(stop + 1, Len(s)))

\* s[start:stop]
Slice(s, start, stop) == SubSeq(s, Clip(start, Len(s)) + 1, Clip(stop, Len(s)))

\* new_sample[idx:idx+length] = src, with numpy's broadcasting rule
AssignSlice(new_sample, idx, length, src) ==
  LET n   == Len(new_sample)
      lo  == Clip(idx, n)
      hi0 == Clip(idx + length, n)
      hi  == IF hi0 < lo THEN lo ELSE hi0
  IN  IF Len(src) = hi - lo
        THEN [ok |-> TRUE,
              arr |-> [i \in 1..n |-> IF lo < i /\ i <= hi THEN src[i - lo]
                                      ELSE new_sample[i]]]
      ELSE IF Len(src) = 1
        THEN [ok |-> TRUE,
              arr |-> [i \in 1..n |-> IF lo < i /\ i <= hi THEN src[1]
                                      ELSE new_sample[i]]]
      ELSE [ok |-> FALSE, arr |-> new_sample]

RECURSIVE TotalLength(_)
TotalLength(segs) ==
  IF segs = <<>> THEN 0
  ELSE (Head(segs)[2] - Head(segs)[1]) + TotalLength(Tail(segs))

\* the loop of lines 54-57 over the segments still to copy
RECURSIVE CopySegments(_, _, _, _)
CopySegments(sample, segs, new_sample, idx) ==
  IF segs = <<>> THEN [ok |-> TRUE, arr |-> new_sample]
  ELSE LET start  == Head(segs)[1]
           end    == Head(segs)[2]
           length == end - start
           r      == AssignSlice(new_sample, idx, length, Slice(sample, start, end))
       IN  IF r.ok THEN CopySegments(sample, Tail(segs), r.arr, idx + length)
           ELSE r

\* lines 50-58: the array that goes on to scaling, or ValueError
ExtractSegments(sample, segs) ==
  IF segs = <<>> THEN [ok |-> TRUE, arr |-> sample]
  ELSE LET total_length == TotalLength(segs)
       IN  IF total_length < 0 THEN [ok |-> FALSE, arr |-> <<>>]
           ELSE CopySegments(sample, segs,
                             [i \in 1..total_length |-> F(0)], 0)

(***************************************************************************)
(* State.                                                                  *)
(***************************************************************************)
VARIABLES
  caller_sample,     \* the array object the caller passes to write() as sample
  caller_segments,   \* the list object the caller passes as segments
  default_segments,  \* the list object made once for the default segments=[]
  dirs,              \* directories that exist
  files,             \* paths of the files written so far
  in_wav,            \* the input recording: whether it exists, and its samples
  last               \* the last call of read() or write(): arguments and outcome

io_vars == <<caller_sample, caller_segments, default_segments, dirs, files,
             in_wav, last>>

VARIABLES
  tree,              \* the recordings location on disk, walked by Walker
  constructed,       \* whether Walker.__init__ has run
  recordings,        \* the list object self._recordings
  discovered,        \* the value of self._recordings when __init__ returned
  has_list,          \* the caller holds what get_recordings_list() returned
  first_list,        \* the value the first get_recordings_list() returned
  last_list,         \* the value the latest get_recordings_list() returned
  last_count,        \* the value the latest count() returned, -1 before
  gens               \* the generator objects read_wave() has returned

walker_vars == <<tree, constructed, recordings, discovered, has_list,
                 first_list, last_list, last_count, gens>>

vars == <<io_vars, walker_vars>>

(***************************************************************************)
(* Paths are sequences of components; "" is the empty path.                *)
(***************************************************************************)
RecPath == <<"rec", "a.wav">>
InPath == <<"in.wav">>
NoDir == <<>>
OutDir == <<"out">>

Basename(path) == <<path[Len(path)]>>

Join(dir, name) == dir \o name

NoCall ==
  [op |-> "none", used_default |-> FALSE, output_dir |-> NoDir, dB |-> 0,
   segments |-> <<>>, sample0 |-> <<>>, segments0 |-> <<>>,
   dirs0 |-> {}, files0 |-> {},
   err |-> "none", reached_scaling |-> FALSE, handed |-> <<>>,
   wrote |-> FALSE, path |-> <<>>, encoded |-> <<>>, ret |-> <<>>]

(***************************************************************************)
(* write(path, rate, sample, dB, output_dir, segments), lines 24-70, on    *)
(* the path rec/a.wav.  The rate is handed to the encoder as it is.        *)
(***************************************************************************)
\* the gain had the decibels been an amplitude ratio, 10^(dB/20)
GainOfAmplitudeRatio(max_sample, dB) == FDiv(F(Pow10(dB \div 20)), max_sample)

\* lines 67-68: the factor every sample is multiplied by
Gain(max_sample, dB) == FDiv(F(Pow10(dB \div 10)), max_sample)

\* lines 60-64: the directories after the call and the path written
DirsAfter(output_dir) ==
  IF output_dir # NoDir THEN dirs \cup {output_dir} ELSE dirs

OutputPath(path, output_dir) ==
  IF output_dir # NoDir THEN Join(output_dir, Basename(path)) ELSE path

Write(use_default, output_dir, dB) ==
  /\ UNCHANGED walker_vars
  /\ LET segments == IF use_default THEN default_segments ELSE caller_segments
         ext      == ExtractSegments(caller_sample, segments)
         call     == [NoCall EXCEPT !.op = "write", !.used_default = use_default,
                                    !.output_dir = output_dir, !.dB = dB,
                                    !.segments = segments,
                                    !.sample0 = caller_sample,
                                    !.segments0 = caller_segments,
                                    !.dirs0 = dirs, !.files0 = files]
     IN  IF ~ext.ok
           THEN \* np.zeros or the slice assignment raised
                /\ last' = [call EXCEPT !.err = "ValueError"]
                /\ UNCHANGED <<caller_sample, caller_segments, default_segments,
                               dirs, files, in_wav>>
         ELSE IF ext.arr = <<>>
           THEN \* np.max of an empty array raises, after the directory was made
                /\ dirs' = DirsAfter(output_dir)
                /\ last' = [call EXCEPT !.err = "ValueError",
                                        !.reached_scaling = TRUE,
                                        !.handed = ext.arr]
                /\ UNCHANGED <<caller_sample, caller_segments, default_segments,
                               files, in_wav>>
         ELSE LET max_sample == NpMax(ext.arr)
                  scaled     == Scale(ext.arr, Gain(max_sample, dB))
                  path       == OutputPath(RecPath, output_dir)
              IN  \E enc \in CastAll(scaled) :
                    /\ dirs' = DirsAfter(output_dir)
                    \* sample *= ... works in place: with no segments the
                    \* array is the caller's own
                    /\ caller_sample' = IF segments = <<>> THEN scaled
                                        ELSE caller_sample
                    /\ files' = files \cup {path}
                    /\ last' = [call EXCEPT !.reached_scaling = TRUE,
                                            !.handed = ext.arr,
                                            !.wrote = TRUE, !.path = path,
                                            !.encoded = enc]
                    /\ UNCHANGED <<caller_segments, default_segments, in_wav>>

(***************************************************************************)
(* read(path), lines 16-21, on the input recording.  The caller keeps the  *)
(* returned array as its sample buffer.                                    *)
(***************************************************************************)
Normalize(sample) ==
  LET m == NpMax([i \in 1..Len(sample) |-> FAbs(sample[i])])
  IN  [i \in 1..Len(sample) |-> FDiv(sample[i], m)]

Read ==
  /\ in_wav.exists
  /\ LET sample == [i \in 1..Len(in_wav.data) |-> F(in_wav.data[i])]
         call   == [NoCall EXCEPT !.op = "read", !.sample0 = sample,
                                  !.dirs0 = dirs, !.files0 = files]
     IN  IF sample = <<>>
           THEN /\ last' = [call EXCEPT !.err = "ValueError"]
                /\ UNCHANGED caller_sample
         ELSE /\ last' = [call EXCEPT !.ret = Normalize(sample)]
              /\ caller_sample' = Normalize(sample)
  /\ UNCHANGED <<caller_segments, default_segments, dirs, files, in_wav>>
  /\ UNCHANGED walker_vars

(***************************************************************************)
(* The inputs: caller-made buffers and segment lists, or an input          *)
(* recording.                                                              *)
(***************************************************************************)
Ramp(n) == [i \in 1..n |-> F(i)]

SeqsUpTo(S, n) == UNION {[1..k -> S] : k \in 0..n}

\* segments with indices from one below 0 to one beyond the length n
SegmentsAround(n) == (-1..(n + 1)) \X (-1..(n + 1))

\* lists of no, one or two segments
SegmentLists(n) ==
  {<<>>} \cup {<<s>> : s \in SegmentsAround(n)}
         \cup {<<s, t>> : s \in SegmentsAround(n), t \in SegmentsAround(n)}

NoRecording == [exists |-> FALSE, data |-> <<>>]

InitCommon ==
  /\ default_segments = <<>>
  /\ dirs = {<<"rec">>}
  /\ files = {}
  /\ last = NoCall

\* a buffer with distinct samples and every segment list around it
InitSegments ==
  /\ \E n \in 0..MaxLen :
       /\ caller_sample = Ramp(n)
       /\ caller_segments \in SegmentLists(n)
  /\ in_wav = NoRecording

\* every buffer, whole or cut to its first sample
InitSamples ==
  /\ caller_sample \in {[i \in 1..Len(s) |-> F(s[i])] :
                           s \in SeqsUpTo(SampleValues, MaxLen)}
  /\ caller_segments \in {<<>>, <<<<0, 1>>>>, <<<<0, Len(caller_sample)>>>>}
  /\ in_wav = NoRecording

\* an input recording to read
InitRecording ==
  /\ caller_sample = <<>>
  /\ caller_segments = <<>>
  /\ in_wav \in {[exists |-> TRUE, data |-> d] : d \in SeqsUpTo(RawValues, MaxLen)}

IOInit == InitCommon /\ (InitSegments \/ InitSamples \/ InitRecording)

(***************************************************************************)
(* The recordings location.  A file name is its sequence of characters, a  *)
(* path its sequence of components.  A directory is the sequence of its    *)
(* entries in the order the operating system lists them.                   *)
(***************************************************************************)
A_WAV == <<"a", ".", "w", "a", "v">>
B_WAV == <<"b", ".", "w", "a", "v">>
C_TXT == <<"c", ".", "t", "x", "t">>
E_UPPER == <<"e", ".", "W", "A", "V">>
WAV == <<"w", "a", "v">>
SUB == <<"s", "u", "b">>
ROOT == <<"R">>

DotWav == <<".", "w", "a", "v">>

\* str.endswith
EndsWith(name, suffix) ==
  /\ Len(name) >= Len(suffix)
  /\ SubSeq(name, Len(name) - Len(suffix) + 1, Len(name)) = suffix

FileEntry(name) == [name |-> name, kind |-> "file", children |-> <<>>]

DirEntry(name, children) == [name |-> name, kind |-> "dir", children |-> children]

\* the names of the entries of one kind, in listing order
RECURSIVE NamesOf(_, _)
NamesOf(listing, kind) ==
  IF listing = <<>> THEN <<>>
  ELSE (IF Head(listing).kind = kind THEN <<Head(listing).name>> ELSE <<>>)
       \o NamesOf(Tail(listing), kind)

\* os.walk(top), top-down: the triple of top, then the walks of its
\* subdirectories in listing order
RECURSIVE Walk(_, _)
RECURSIVE WalkEach(_, _)
Walk(top, listing) ==
  <<[dirpath |-> top, dirnames |-> NamesOf(listing, "dir"),
     filenames |-> NamesOf(listing, "file")]>>
  \o WalkEach(top, listing)

WalkEach(top, listing) ==
  IF listing = <<>> THEN <<>>
  ELSE (IF Head(listing).kind = "dir"
          THEN Walk(Append(top, Head(listing).name), Head(listing).children)
        ELSE <<>>)
       \o WalkEach(top, Tail(listing))

\* os.walk of the recordings location: nothing unless it is a directory
OsWalk(t) == IF t.kind = "dir" THEN Walk(t.path, t.listing) ELSE <<>>

\* the suffix test without the dot
IsWaveNameNoDot(name) == EndsWith(name, WAV)

IsWaveName(name) == EndsWith(name, DotWav)

\* lines 87-88 for one triple
RECURSIVE JoinAll(_, _)
JoinAll(dirpath, filenames) ==
  IF filenames = <<>> THEN <<>>
  ELSE <<Append(dirpath, Head(filenames))>> \o JoinAll(dirpath, Tail(filenames))

WaveFiles(triple) ==
  JoinAll(triple.dirpath, SelectSeq(triple.filenames, IsWaveName))

\* lines 86-88
RECURSIVE Collect(_)
Collect(walk) ==
  IF walk = <<>> THEN <<>> ELSE WaveFiles(Head(walk)) \o Collect(Tail(walk))

\* lines 81-88: self._recordings when __init__ returns
Discover(t) ==
  (IF t.kind = "file" /\ IsWaveName(t.path[Len(t.path)]) THEN <<t.path>> ELSE <<>>)
  \o Collect(OsWalk(t))

(***************************************************************************)
(* Walker                                                                  *)
(***************************************************************************)
WalkerInit ==
  /\ ~constructed
  /\ constructed' = TRUE
  /\ recordings' = Discover(tree)
  /\ discovered' = Discover(tree)
  /\ UNCHANGED <<tree, has_list, first_list, last_list, last_count, gens>>
  /\ UNCHANGED io_vars

\* lines 115-117: the list object itself is returned
GetRecordingsList ==
  /\ constructed
  /\ has_list' = TRUE
  /\ first_list' = IF has_list THEN first_list ELSE recordings
  /\ last_list' = recordings
  /\ UNCHANGED <<tree, constructed, recordings, discovered, last_count, gens>>
  /\ UNCHANGED io_vars

\* lines 119-121
Count ==
  /\ constructed
  /\ last_count' = Len(recordings)
  /\ UNCHANGED <<tree, constructed, recordings, discovered, has_list,
                 first_list, last_list, gens>>
  /\ UNCHANGED io_vars

\* A generator object.  idx is the position of the for loop's list
\* iterator, decoded the files handed to wav.read so far, held the decoded
\* arrays the frame's variable sample refers to (named by the rank of their
\* decode), result what the last advance gave its consumer.
NewGen ==
  [state |-> "created", idx |-> 0, yielded |-> <<>>, decoded |-> <<>>,
   held |-> {}, result |-> "none"]

\* a cursor that starts over once it has run off the end of the list
GenNextRestarting(g, recs, ok) ==
  IF g.idx < Len(recs)
    THEN LET name == recs[g.idx + 1]
         IN  IF ok
               THEN [g EXCEPT !.state = "suspended", !.idx = @ + 1,
                              !.decoded = Append(@, name),
                              !.held = {Len(g.decoded) + 1},
                              !.yielded = Append(@, name),
                              !.result = "item"]
             ELSE [g EXCEPT !.state = "closed", !.idx = @ + 1,
                            !.decoded = Append(@, name),
                            !.held = {}, !.result = "error"]
  ELSE [g EXCEPT !.state = "suspended", !.idx = 0, !.held = {},
                 !.result = "stop"]

\* a generator that reads every file on its first advance
GenNextEager(g, recs, ok) ==
  IF g.state = "closed"
    THEN [g EXCEPT !.result = "stop"]
  ELSE IF g.idx < Len(recs)
    THEN [g EXCEPT !.state = "suspended", !.idx = @ + 1,
                   !.decoded = IF g.state = "created" THEN recs ELSE @,
                   !.held = 1..Len(recs),
                   !.yielded = Append(@, recs[g.idx + 1]),
                   !.result = "item"]
  ELSE [g EXCEPT !.state = "closed", !.held = {}, !.result = "stop"]

\* a generator that swallows a failed read and goes on to the next file
GenNextSkipping(g, recs, ok) ==
  IF g.state = "closed"
    THEN [g EXCEPT !.result = "stop"]
  ELSE IF g.idx < Len(recs)
    THEN LET name == recs[g.idx + 1]
         IN  IF ok
               THEN [g EXCEPT !.state = "suspended", !.idx = @ + 1,
                              !.decoded = Append(@, name),
                              !.held = {Len(g.decoded) + 1},
                              !.yielded = Append(@, name),
                              !.result = "item"]
             ELSE [g EXCEPT !.state = "suspended", !.idx = @ + 1,
                            !.decoded = Append(@, name),
                            !.held = {}, !.result = "none"]
  ELSE [g EXCEPT !.state = "closed", !.held = {}, !.result = "stop"]

\* lines 111-113: one advance (next()) of generator g over the list recs;
\* ok tells whether wav.read succeeds should a file be read
GenNext(g, recs, ok) ==
  IF g.state = "closed"
    THEN [g EXCEPT !.result = "stop"]
  ELSE IF g.idx < Len(recs)
    THEN LET name == recs[g.idx + 1]
         IN  IF ok
               THEN [g EXCEPT !.state = "suspended", !.idx = @ + 1,
                              !.decoded = Append(@, name),
                              !.held = {Len(g.decoded) + 1},
                              !.yielded = Append(@, name),
                              !.result = "item"]
             ELSE \* the exception leaves the generator, which is finished
                  [g EXCEPT !.state = "closed", !.idx = @ + 1,
                            !.decoded = Append(@, name),
                            !.held = {}, !.result = "error"]
  ELSE [g EXCEPT !.state = "closed", !.held = {}, !.result = "stop"]

\* line 90: calling read_wave() makes a generator; no line of it runs yet
ReadWave ==
  /\ constructed
  /\ Len(gens) < MaxGens
  /\ gens' = Append(gens, NewGen)
  /\ UNCHANGED <<tree, constructed, recordings, discovered, has_list,
                 first_list, last_list, last_count>>
  /\ UNCHANGED io_vars

Advance(i, ok) ==
  /\ gens' = [gens EXCEPT ![i] = GenNext(gens[i], recordings, ok)]
  /\ UNCHANGED <<tree, constructed, recordings, discovered, has_list,
                 first_list, last_list, last_count>>
  /\ UNCHANGED io_vars

(***************************************************************************)
(* The caller's use of the list get_recordings_list() handed out: it is    *)
(* the Walker's own list object, so changing it changes self._recordings.  *)
(***************************************************************************)
\* the caller takes the last element off the list: lst.pop()
CallerPops ==
  /\ has_list
  /\ recordings # <<>>
  /\ recordings' = SubSeq(recordings, 1, Len(recordings) - 1)
  /\ UNCHANGED <<tree, constructed, discovered, has_list, first_list,
                 last_list, last_count, gens>>
  /\ UNCHANGED io_vars

(***************************************************************************)
(* The locations walked: nothing, one file, or a directory of files with   *)
(* at most one subdirectory of files.                                      *)
(***************************************************************************)
\* sequences of at most n distinct elements of S
Listings(S, n) ==
  {s \in SeqsUpTo(S, n) : \A i, j \in 1..Len(s) : s[i].name = s[j].name => i = j}

TopFiles == {FileEntry(n) : n \in {A_WAV, C_TXT, E_UPPER}}

SubFiles == {FileEntry(n) : n \in {B_WAV, WAV}}

SubDirs == {DirEntry(SUB, c) : c \in Listings(SubFiles, MaxEntries)}

Trees ==
  {[kind |-> "missing", path |-> <<ROOT>>, listing |-> <<>>]}
  \cup {[kind |-> "file", path |-> <<ROOT, n>>, listing |-> <<>>] :
          n \in {A_WAV, C_TXT, E_UPPER}}
  \cup {[kind |-> "dir", path |-> <<ROOT>>, listing |-> l] :
          l \in Listings(TopFiles \cup SubDirs, MaxEntries)}

NoTree == [kind |-> "missing", path |-> <<ROOT>>, listing |-> <<>>]

WalkerStart ==
  /\ constructed = FALSE
  /\ recordings = <<>>
  /\ discovered = <<>>
  /\ has_list = FALSE
  /\ first_list = <<>>
  /\ last_list = <<>>
  /\ last_count = -1
  /\ gens = <<>>

NoIO ==
  /\ InitCommon
  /\ caller_sample = <<>>
  /\ caller_segments = <<>>
  /\ in_wav = NoRecording

(***************************************************************************)
(* Specifications: read() and write() on the caller's data; a Walker used  *)
(* through its methods; a Walker whose caller also changes the list it was *)
(* handed.                                                                 *)
(***************************************************************************)
Init == IOInit /\ tree = NoTree /\ WalkerStart

Next ==
  \/ \E use_default \in BOOLEAN, output_dir \in {NoDir, OutDir}, dB \in DBs :
       Write(use_default, output_dir, dB)
  \/ Read

Spec == Init /\ [][Next]_vars

InitWalker == NoIO /\ tree \in Trees /\ WalkerStart

NextWalker ==
  \/ WalkerInit
  \/ GetRecordingsList
  \/ Count
  \/ ReadWave
  \/ \E i \in 1..Len(gens), ok \in BOOLEAN : Advance(i, ok)

SpecWalker == InitWalker /\ [][NextWalker]_vars

NextWalkerAlias == NextWalker \/ CallerPops

SpecWalkerAlias == InitWalker /\ [][NextWalkerAlias]_vars

(***************************************************************************)
(* Properties of write() and read().                                       *)
(***************************************************************************)
ValidSegment(seg, n) == 0 <= seg[1] /\ seg[1] <= seg[2] /\ seg[2] <= n

AllValid(segs, n) == \A i \in 1..Len(segs) : ValidSegment(segs[i], n)

\* b[start:end] of every segment, one after the other
RECURSIVE Concatenation(_, _)
Concatenation(b, segs) ==
  IF segs = <<>> THEN <<>>
  ELSE SubSeq(b, Head(segs)[1] + 1, Head(segs)[2]) \o Concatenation(b, Tail(segs))

\* C1: when every segment passed to write() lies within the buffer, the
\* array that goes on to scaling is the buffer itself for an empty list, and
\* otherwise the slices of the segments, concatenated in list order.
C1_SegmentConcatenation ==
  (last.op = "write" /\ AllValid(last.segments, Len(last.sample0)))
    => /\ last.reached_scaling
       /\ last.handed = IF last.segments = <<>> THEN last.sample0
                        ELSE Concatenation(last.sample0, last.segments)

\* two overlapping segments, the later part of the buffer first
C1_Witness ==
  /\ last.op = "write"
  /\ last.wrote
  /\ last.sample0 = <<F(1), F(2)>>
  /\ last.segments = <<<<1, 2>>, <<0, 2>>>>
  /\ last.handed = <<F(2), F(1), F(2)>>

\* C2: a write with a segment outside 0 <= start <= end <= len(buffer)
\* fails before any I/O: no directory is made and no file written.  Any
\* exception counts as the failure.
C2_InvalidSegmentRejected ==
  (last.op = "write" /\ ~AllValid(last.segments, Len(last.sample0)))
    => /\ last.err # "none"
       /\ ~last.wrote
       /\ dirs = last.dirs0
       /\ files = last.files0

IsZero(x) == x[1] = 0 /\ x[2] # 0

\* C3: read() of a recording whose largest |s| is zero fails, and write() of
\* a buffer whose largest s is zero fails and encodes no file.
C3_SilentBufferRejected ==
  /\ (/\ last.op = "write"
      /\ last.reached_scaling
      /\ last.handed # <<>>
      /\ IsZero(NpMax(last.handed)))
       => (last.err # "none" /\ ~last.wrote)
  /\ (/\ last.op = "read"
      /\ last.sample0 # <<>>
      /\ IsZero(NpMax([i \in 1..Len(last.sample0) |-> FAbs(last.sample0[i])])))
       => last.err # "none"

AllFinite(s) == \A i \in 1..Len(s) : IsFinite(s[i])

MaxInt(s) == CHOOSE m \in {s[i] : i \in 1..Len(s)} : \A i \in 1..Len(s) : s[i] <= m

\* a write at 30 dB that encoded a buffer of finite samples with a peak
\* other than zero
ScaledAt30 ==
  /\ last.op = "write"
  /\ last.wrote
  /\ last.dB = 30
  /\ AllFinite(last.handed)
  /\ ~IsZero(NpMax(last.handed))

\* sample i of the last write times 1000 / peak, as a fraction
Target30(i) == FMul(last.handed[i], FDiv(F(1000), NpMax(last.handed)))

InInt16(v) == Trunc(v) >= Int16Min /\ Trunc(v) <= Int16Max

\* e is v cut toward zero to a whole number, up to one unit of rounding
Quantizes(e, v) ==
  /\ e = 0 \/ Sign(e) = Sign(v[1])
  /\ Abs(e) * v[2] <= Abs(v[1])
  /\ Abs(v[1]) - Abs(e) * v[2] <= v[2]

C9_WriteLeavesCallerDataUnchanged ==
  last.op = "write"
    => /\ caller_sample = last.sample0
       /\ caller_segments = last.segments0
       /\ default_segments = <<>>

(***************************************************************************)
(* Properties of Walker.                                                   *)
(***************************************************************************)
\* C5: once the Walker is constructed its entry list stays as discovered:
\* every get_recordings_list() returns that sequence and every count() its
\* length, whatever the caller does with what it was handed.
C5_EntryListNeverChanges ==
  constructed
    => /\ recordings = discovered
       /\ has_list => (first_list = discovered /\ last_list = first_list)
       /\ last_count >= 0 => last_count = Len(discovered)

\* a read of the generator failed
Failed(g) == Len(g.decoded) > Len(g.yielded)

\* what a generator has yielded is the start of the entry list; one that
\* ended without a failed read has yielded all of it
CursorState(g) ==
  /\ Len(g.yielded) <= Len(recordings)
  /\ \A k \in 1..Len(g.yielded) : g.yielded[k] = recordings[k]
  /\ (g.state = "closed" /\ ~Failed(g)) => Len(g.yielded) = Len(recordings)
  /\ g.state = "created" => g.yielded = <<>>
  /\ g.result = "stop" => g.state = "closed"

\* an advance yields the next entry or nothing, and an ended generator
\* stays ended and yields nothing more
CursorStep(g, h) ==
  /\ h.yielded = g.yielded
       \/ (/\ Len(g.yielded) < Len(recordings)
           /\ h.yielded = Append(g.yielded, recordings[Len(g.yielded) + 1]))
  /\ g.state = "closed" => (h.state = "closed" /\ h.yielded = g.yielded)

C7_LazyDecoding ==
  \A i \in 1..Len(gens) :
    LET g == gens[i]
    IN  /\ Cardinality(g.held) <= 1
        /\ g.held \subseteq {Len(g.decoded)}
        /\ Len(g.decoded) \in {Len(g.yielded), Len(g.yielded) + 1}
        /\ \A k \in 1..Len(g.yielded) : g.decoded[k] = g.yielded[k]
        /\ g.state = "created" => g.decoded = <<>>

C7_Witness ==
  \E i \in 1..Len(gens) :
    /\ Len(gens[i].yielded) = 2
    /\ Len(gens[i].decoded) = 2
    /\ gens[i].held = {2}

Last(s) == s[Len(s)]

\* the paths of the files below a directory
RECURSIVE FilesUnder(_, _)
FilesUnder(path, listing) ==
  UNION {IF listing[k].kind = "file" THEN {Append(path, listing[k].name)}
         ELSE FilesUnder(Append(path, listing[k].name), listing[k].children) :
           k \in 1..Len(listing)}

\* the names of the model that end with ".wav"
WaveNames == {A_WAV, B_WAV}

\* the listing of a directory of the tree
RECURSIVE ListingOf(_)
ListingOf(dirpath) ==
  IF dirpath = tree.path THEN tree.listing
  ELSE LET up == ListingOf(SubSeq(dirpath, 1, Len(dirpath) - 1))
       IN  up[CHOOSE k \in 1..Len(up) : up[k].name = Last(dirpath)].children

Parent(path) == SubSeq(path, 1, Len(path) - 1)

IsPrefix(p, q) == Len(p) <= Len(q) /\ SubSeq(q, 1, Len(p)) = p

PlaceIn(path) ==
  LET l == ListingOf(Parent(path))
  IN  CHOOSE k \in 1..Len(l) : l[k].name = Last(path)

\* file p comes before file q in a top-down walk
WalkedBefore(p, q) ==
  IF Parent(p) = Parent(q) THEN PlaceIn(p) < PlaceIn(q)
  ELSE IsPrefix(Parent(p), Parent(q))

\* C8: construction discovers a root that is a file named *.wav as the one
\* entry; under a root directory it discovers every file of the subtree
\* named *.wav, once, in the order of the walk, and no other file.
C8_DiscoversExactlyWaveFiles ==
  constructed =>
    /\ (tree.kind = "file" /\ Last(tree.path) \in WaveNames)
         => discovered = <<tree.path>>
    /\ tree.kind = "dir" =>
         /\ {discovered[k] : k \in 1..Len(discovered)}
              = {p \in FilesUnder(tree.path, tree.listing) : Last(p) \in WaveNames}
         /\ \A j, k \in 1..Len(discovered) :
              j < k => /\ discovered[j] # discovered[k]
                       /\ WalkedBefore(discovered[j], discovered[k])

\* a directory listed as sub, a.wav with sub holding wav and b.wav
C8_Witness ==
  /\ constructed
  /\ tree.kind = "dir"
  /\ tree.listing = <<DirEntry(SUB, <<FileEntry(WAV), FileEntry(B_WAV)>>),
                      FileEntry(A_WAV)>>
  /\ discovered = <<<<ROOT, A_WAV>>, <<ROOT, SUB, B_WAV>>>>

\* C10: a failed read ends the generator: the items before it were yielded,
\* the advance that met it gave the error, and no later advance reads or
\* yields anything.
C10_AbortOnFirstError ==
  /\ [](\A i \in 1..Len(gens) :
          Failed(gens[i]) => /\ gens[i].state = "closed"
                             /\ Len(gens[i].decoded) = Len(gens[i].yielded) + 1
                             /\ gens[i].result \in {"error", "stop"})
  /\ [][\A i \in 1..Len(gens) :
          /\ (Failed(gens'[i]) /\ ~Failed(gens[i])) => gens'[i].result = "error"
          /\ Failed(gens[i]) => /\ gens'[i].yielded = gens[i].yielded
                                /\ gens'[i].decoded = gens[i].decoded]_vars

\* the first item was yielded, the read of the second entry failed
C10_Witness ==
  \E i \in 1..Len(gens) :
    /\ Len(gens[i].yielded) = 1
    /\ Len(gens[i].decoded) = 2
    /\ gens[i].result = "error"
    /\ gens[i].state = "closed"

====
